---- MODULE Spec2Model ----
(***************************************************************************)
(* Morning Summary Station: the Google Calendar integration                *)
(* (calendar_service.js, get_events.js, getToken.js, the config setup      *)
(* script) on one shared calendar_config.json, and the aggregation         *)
(* orchestrator that consumes it.                                          *)
(***************************************************************************)
EXTENDS Integers, Sequences, FiniteSets, TLC

(* ------------------------------ bounds -------------------------------- *)

\* the clock runs over 0..MaxNow
MaxNow == 1
\* access tokens the provider issues in one behaviour
MaxIssued == 1
\* OAuth callback requests the authorization server receives
MaxCallbacks == 2
\* calls of calendar.events.list in one behaviour
MaxListCalls == 1
\* lifetime, in clock units, of an access token the provider issues
TokenLifetime == 1

(* ------------------------- program constants -------------------------- *)

\* part_000:45  expiryDate.setDate(expiryDate.getDate() + 7)
SetupExpiryDays == 7

(* ------------------------------ values -------------------------------- *)

\* refresh tokens are strings, "" standing for undefined: the one given in
\* GOOGLE_REFRESH_TOKEN and the one the provider grants in the code exchange
NoToken == ""
EnvRefreshToken == "rt-env"
GrantedRefreshToken == "rt-granted"
RefreshTokens == {EnvRefreshToken, GrantedRefreshToken}

\* access tokens are numbered in the order the provider issues them,
\* 0 standing for undefined

\* the `tokens` object of the config file / the credentials of the client
NoTokens == [present |-> FALSE, refresh_token |-> NoToken,
             access_token |-> 0, expiry_date |-> 0]

Tokens(rt, at, exp) == [present |-> TRUE, refresh_token |-> rt,
                        access_token |-> at, expiry_date |-> exp]

(* ----------------------- calendar_config.json ------------------------- *)

\* The file as what JSON.parse makes of it: which keys the object has.
\*   kind            "missing" | "invalid" (not JSON) | "json"
\*   installed       the object has an `installed` section
\*   redirect_uris   installed.redirect_uris is present
\*   tokens          the `tokens` object (present or not)
\*   refresh_token   a top-level refresh_token key (0: none)
\*   client_id       top-level client_id/client_secret/redirect_uri keys
File(kind, installed, uris, tokens, rt, flat) ==
    [kind |-> kind, installed |-> installed, redirect_uris |-> uris,
     tokens |-> tokens, refresh_token |-> rt, client_id |-> flat]

MissingFile == File("missing", FALSE, FALSE, NoTokens, NoToken, FALSE)
InvalidFile == File("invalid", FALSE, FALSE, NoTokens, NoToken, FALSE)

\* getToken.js:50-57  { client_id, client_secret, refresh_token, redirect_uri }
GetTokenConfig(rt) == File("json", FALSE, FALSE, NoTokens, rt, TRUE)

\* setup_calendar_config.js:24-40  installed + top-level refresh_token
SetupConfigRefreshToken(rt) == File("json", TRUE, TRUE, NoTokens, rt, FALSE)

\* a config whose `tokens` object is written whether or not a refresh token
\* was given
SetupConfigTokensAlways(rt, t) ==
    File("json", TRUE, TRUE, Tokens(rt, 0, t + SetupExpiryDays), NoToken, FALSE)

\* part_000:24-54  installed + tokens {refresh_token, scope, token_type, expiry_date}
SetupConfigTokens(rt, t) ==
    File("json", TRUE, TRUE,
         IF rt # NoToken THEN Tokens(rt, 0, t + SetupExpiryDays) ELSE NoTokens,
         NoToken, FALSE)

\* files put in place by hand: deleted, corrupted, an `installed` section
\* without redirect_uris, a complete file with a live access token
ExternalFiles ==
    { MissingFile, InvalidFile,
      File("json", TRUE, FALSE, Tokens(EnvRefreshToken, 0, 0), NoToken, FALSE),
      File("json", TRUE, TRUE, Tokens(EnvRefreshToken, 99, 1), NoToken, FALSE) }

(* ------------------------------ events -------------------------------- *)

\* A JavaScript value held in `start` / `end`: the provider's object
\* {dateTime, date}, a string (an RFC 3339 date-time, which contains 'T',
\* or a plain date) or undefined.  dateTime and date are 0 when absent.
Val(type, dateTime, date) == [type |-> type, dateTime |-> dateTime, date |-> date]
Undefined == Val("undefined", 0, 0)

\* a.dateTime || a.date   (property access on a string gives undefined)
DateTimeOrDate(v) ==
    IF v.type = "object" /\ v.dateTime # 0 THEN Val("string", v.dateTime, 0)
    ELSE IF v.type = "object" /\ v.date # 0 THEN Val("string", 0, v.date)
    ELSE Undefined

\* v.dateTime as a truth value
HasDateTime(v) == v.type = "object" /\ v.dateTime # 0

\* str.includes('T')
IncludesT(v) == v.type = "string" /\ v.dateTime # 0

\* formattedTime: 'All day', one time, or 'start - end'
Fmt(kind, a, b) == [kind |-> kind, a |-> a, b |-> b]
NoFmt == Fmt("none", 0, 0)
AllDay == Fmt("allday", 0, 0)

\* toLocaleTimeString([], {hour, minute}) of an hour instant: the hour of day
LocaleTime(t) == t % 24

\* An event object.  shape names which keys it has: "provider" (the API's
\* item), "today" (getTodayEvents' result), "formatted" (formatEvents').
Event(shape, id, summary, start, end, fmt, isAllDay) ==
    [shape |-> shape, id |-> id, summary |-> summary, start |-> start,
     end |-> end, formattedTime |-> fmt, isAllDay |-> isAllDay]

ProviderEvent(id, summary, dateTime, date) ==
    Event("provider", id, summary, Val("object", dateTime, date),
          Val("object", IF dateTime # 0 THEN dateTime + 1 ELSE 0,
                        IF date # 0 THEN date + 1 ELSE 0), NoFmt, FALSE)

\* the title passed through as it is, with no placeholder
SummaryAsGiven(e) == e.summary

\* event.summary || 'Untitled Event'
SummaryOrUntitled(e) == IF e.summary # "" THEN e.summary ELSE "Untitled Event"

\* calendar_service.js:91-109  the mapping of one item in getTodayEvents
TodayEvent(event) ==
    LET startDateTime == DateTimeOrDate(event.start)
        endDateTime == DateTimeOrDate(event.end)
        formattedTime == IF IncludesT(startDateTime)
                         THEN Fmt("time", LocaleTime(startDateTime.dateTime), 0)
                         ELSE AllDay
    IN Event("today", 0, SummaryOrUntitled(event), startDateTime, endDateTime,
             formattedTime, FALSE)

TodayEvents(items) == [i \in 1..Len(items) |-> TodayEvent(items[i])]

\* calendar_service.js:148-175  formatEvents, one event
FormatEvent(event) ==
    LET start == DateTimeOrDate(event.start)
        end == DateTimeOrDate(event.end)
        formattedTime == IF HasDateTime(event.start)
                         THEN Fmt("range", LocaleTime(event.start.dateTime),
                                           LocaleTime(event.end.dateTime))
                         ELSE AllDay
    IN Event("formatted", event.id, SummaryOrUntitled(event), start, end,
             formattedTime, ~HasDateTime(event.start))

formatEvents(events) == [i \in 1..Len(events) |-> FormatEvent(events[i])]

\* the items the provider may answer events.list with (day 1 is today,
\* hours 24..47 are today's)
Standup == ProviderEvent(1, "Standup", 33, 0)
ClientCall == ProviderEvent(2, "Client Call", 38, 0)
Holiday == ProviderEvent(3, "", 0, 1)
\* an event that began yesterday at 22:00 and ends today at 02:00: it
\* overlaps today's window, so events.list with timeMin/timeMax returns it
Overnight ==
    Event("provider", 4, "Night Shift", Val("object", 22, 0), Val("object", 26, 0),
          NoFmt, FALSE)
\* with orderBy: 'startTime' the provider answers in start order
ProviderResponses ==
    { <<>>, <<Standup>>, <<Holiday, Standup, ClientCall>>, <<Overnight, Standup>> }

\* calendar_service.js:73-75  the requested window, in hours: today 00:00
\* to today 23:59:59.999
StartOfDay == 24
EndOfDay == 47

\* the instant, in hours, of a start value: a date-time, or the midnight
\* that begins a date
StartInstant(v) == IF v.dateTime # 0 THEN v.dateTime ELSE v.date * StartOfDay

(* ------------------------------- state --------------------------------- *)

VARIABLES
    configFile,   \* calendar_config.json
    now,          \* the clock
    issued,       \* access tokens the provider has issued through refreshes
    console,      \* per program, the lines written to the console
    setup,        \* the config setup script: its last run
    auth,         \* getToken.js: the callback server and its requests
    svc,          \* the GoogleCalendarService object of the running process
    call,         \* the getTodayEvents call in progress on svc
    listCalls,    \* calls of calendar.events.list so far
    ge,           \* the get_events.js process
    stdout,       \* standard output of the get_events.js process
    norm,         \* the last normalization of a list of provider events
    orch,         \* the orchestrator: its state and the two fetches
    ctx,          \* the Briefing Context
    llm,          \* the language-generation call
    result        \* the Briefing Result

fsVars == <<configFile, now, issued>>
svcVars == <<svc, call, listCalls>>
geVars == <<ge, stdout>>
orchVars == <<orch, ctx, llm, result>>
vars == <<configFile, now, issued, console, setup, auth, svc, call, listCalls,
          ge, stdout, norm, orch, ctx, llm, result>>

\* one console line: the stream, the text, and the refresh token printed
\* in it ("" when it prints none)
Line(stream, msg, arg) == [stream |-> stream, msg |-> msg, arg |-> arg]

Log(prog, lines) == [console EXCEPT ![prog] = @ \cup lines]

(* ---------------------- GoogleCalendarService -------------------------- *)

\* calendar_service.js:13-18
NewService == [oAuth2Client |-> FALSE, initialized |-> FALSE, credentials |-> NoTokens]

\* calendar_service.js:24-61  which return statement initialize() leaves by
InitializeOutcome(cfg) ==
    IF cfg.kind = "missing" THEN "not_found"             \* 26-29
    ELSE IF cfg.kind = "invalid" THEN "parse_error"      \* 31, caught at 57
    ELSE IF ~cfg.installed THEN "no_installed"           \* 33-36
    ELSE IF ~cfg.redirect_uris THEN "type_error"         \* 44, caught at 57
    ELSE IF ~cfg.tokens.present THEN "no_tokens"         \* 53-56
    ELSE "ok"                                            \* 48-52

\* initialize() returning true as soon as the client exists
InitializeReturnsWithoutTokens(cfg) == InitializeOutcome(cfg) \in {"ok", "no_tokens"}

\* the value initialize() returns
InitializeReturns(cfg) == InitializeOutcome(cfg) = "ok"

\* initialize() setting the flag as soon as the client exists
InitializeSvcEager(s, cfg) ==
    LET o == InitializeOutcome(cfg) IN
    IF o \in {"ok", "no_tokens"}
    THEN [oAuth2Client |-> TRUE, initialized |-> TRUE, credentials |-> cfg.tokens]
    ELSE s

\* initialize() clearing the flag when it fails
InitializeSvcResetting(s, cfg) ==
    LET o == InitializeOutcome(cfg) IN
    IF o = "ok"
    THEN [oAuth2Client |-> TRUE, initialized |-> TRUE, credentials |-> cfg.tokens]
    ELSE IF o = "no_tokens"
    THEN [oAuth2Client |-> TRUE, initialized |-> FALSE, credentials |-> NoTokens]
    ELSE [s EXCEPT !.initialized = FALSE]

\* the service object after initialize(): a new OAuth2 client as soon as
\* line 41 is reached, credentials and the flag only with tokens
InitializeSvc(s, cfg) ==
    LET o == InitializeOutcome(cfg) IN
    IF o = "ok"
    THEN [oAuth2Client |-> TRUE, initialized |-> TRUE, credentials |-> cfg.tokens]
    ELSE IF o = "no_tokens"
    THEN [s EXCEPT !.oAuth2Client = TRUE, !.credentials = NoTokens]
    ELSE s

\* what initialize() writes to the console
InitializeLog(cfg) ==
    LET o == InitializeOutcome(cfg) IN
    IF o = "not_found" THEN {Line("err", "Calendar config file not found at", "")}
    ELSE IF o \in {"parse_error", "type_error"}
    THEN {Line("err", "Error initializing calendar service:", "")}
    ELSE IF o = "no_installed"
    THEN {Line("err", "Invalid config file: missing installed properties", "")}
    ELSE IF o = "no_tokens" THEN {Line("err", "No tokens found in config file", "")}
    ELSE {Line("out", "Setting credentials from config tokens", "")}

\* the lines of it that go to standard output (console.log)
StdoutOf(lines) == IF \E l \in lines : l.stream = "out"
                   THEN <<[json |-> FALSE, events |-> <<>>]>> ELSE <<>>

\* a getTodayEvents call: where it is, what it resolved or rejected with
Call(pc, err, value) == [pc |-> pc, err |-> err, value |-> value]
NoCall == Call("none", "", <<>>)

\* the OAuth2 client handed to the request as `auth` (calendar_service.js:78)
\* needs a refresh before the request when it holds no access token or an
\* expired one
NeedsRefresh(creds, t) ==
    \/ creds.access_token = 0
    \/ creds.expiry_date # 0 /\ creds.expiry_date <= t

\* calendar_service.js:67-88  getTodayEvents up to its await: the service
\* after the initialization check, and the call's position
GetTodayEventsSvc(s, cfg) == IF s.initialized THEN s ELSE InitializeSvc(s, cfg)

GetTodayEventsEntry(s, cfg, t) ==
    LET s1 == GetTodayEventsSvc(s, cfg) IN
    IF ~s.initialized /\ ~InitializeReturns(cfg)
    THEN Call("rejected", "Calendar service not initialized", <<>>)   \* 68-70
    ELSE IF ~NeedsRefresh(s1.credentials, t) THEN Call("listing", "", <<>>)
    ELSE IF s1.credentials.refresh_token # NoToken THEN Call("refreshing", "", <<>>)
    ELSE Call("rejected", "No refresh token is set", <<>>)

\* whether the entry reaches line 82, calendar.events.list
ReachesList(s, cfg) == s.initialized \/ InitializeReturns(cfg)

GetTodayEventsLog(s, cfg, t) ==
    (IF s.initialized THEN {} ELSE InitializeLog(cfg))
    \cup (IF GetTodayEventsEntry(s, cfg, t).err = "No refresh token is set"
          THEN {Line("err", "Error getting today's events:", "")} ELSE {})

(* ------------------------- the process of svc -------------------------- *)

\* get_events.js exists in two versions: "check" (get_events.js:34-66, which
\* tests initialize() and prints the events as returned) and "format"
\* (get_events.js:1-33, which ignores initialize()'s value and prints
\* formatEvents of the events)
Variants == {"check", "format"}

Ge(variant, pc, exit) == [variant |-> variant, pc |-> pc, exit |-> exit]
NoGe == Ge("none", "idle", -1)

JsonDoc(events) == [json |-> TRUE, events |-> events]

\* some program constructs a service of its own (calendar_service.js:13-18)
ApiNew ==
    /\ ge.pc # "awaiting" /\ call.pc = "none"
    /\ svc' = NewService
    /\ ge' = NoGe
    /\ stdout' = <<>>
    /\ console' = [console EXCEPT !["svc"] = {}]
    /\ UNCHANGED <<norm, fsVars, setup, auth, call, listCalls, orchVars>>

\* ... and calls initialize() on it
ApiInitialize ==
    /\ ge.pc = "idle" /\ call.pc = "none"
    /\ svc' = InitializeSvc(svc, configFile)
    /\ console' = Log("svc", InitializeLog(configFile))
    /\ UNCHANGED <<norm, fsVars, setup, auth, call, listCalls, geVars, orchVars>>

\* ... and calls getTodayEvents() on it (calendar_service.js:67-88)
ApiGetTodayEvents ==
    /\ ge.pc = "idle" /\ call.pc = "none"
    /\ listCalls < MaxListCalls
    /\ svc' = GetTodayEventsSvc(svc, configFile)
    /\ call' = GetTodayEventsEntry(svc, configFile, now)
    /\ listCalls' = IF ReachesList(svc, configFile) THEN listCalls + 1 ELSE listCalls
    /\ console' = Log("svc", GetTodayEventsLog(svc, configFile, now))
    /\ UNCHANGED <<norm, fsVars, setup, auth, geVars, orchVars>>

\* calendar_service.js:119-143  getEvents(startDate, endDate).  The await of
\* initialize() ignores its value.  Inside the try, toISOString() throws a
\* RangeError for a date that does not parse, and otherwise line 130 reads
\* this.calendar, a field nothing assigns (the constructor, 13-18, and
\* initialize, 24-61, set only configPath, calendarId, oAuth2Client and
\* initialized): `this.calendar.events` throws a TypeError before any
\* request.  The catch logs and rethrows.
GetEventsSvc(s, cfg) == IF s.initialized THEN s ELSE InitializeSvc(s, cfg)

GetEventsEntry(validDates) ==
    Call("rejected", IF validDates THEN "TypeError" ELSE "RangeError", <<>>)

GetEventsLog(s, cfg) ==
    (IF s.initialized THEN {} ELSE InitializeLog(cfg))
    \cup {Line("err", "Error getting events:", "")}

\* ... and calls getEvents() on it
ApiGetEvents ==
    /\ ge.pc = "idle" /\ call.pc = "none"
    /\ svc' = GetEventsSvc(svc, configFile)
    /\ \E validDates \in BOOLEAN : call' = GetEventsEntry(validDates)
    /\ console' = Log("svc", GetEventsLog(svc, configFile))
    /\ UNCHANGED <<norm, fsVars, setup, auth, listCalls, geVars, orchVars>>

\* ... and takes the call's result
ApiSettle ==
    /\ ge.pc = "idle" /\ call.pc \in {"resolved", "rejected"}
    /\ call' = NoCall
    /\ UNCHANGED <<norm, fsVars, console, setup, auth, svc, listCalls, geVars, orchVars>>

\* the credentials after the OAuth2 client has refreshed its access token:
\* they live in the client object only
Refreshed(creds, at, t) ==
    [creds EXCEPT !.access_token = at, !.expiry_date = t + TokenLifetime]

\* the token endpoint answers the refresh exchange; nothing in
\* calendar_service.js:80-88 writes the new token to calendar_config.json
RefreshOk ==
    /\ call.pc = "refreshing" /\ issued < MaxIssued
    /\ issued' = issued + 1
    /\ svc' = [svc EXCEPT !.credentials = Refreshed(@, issued + 1, now)]
    /\ call' = Call("listing", "", <<>>)
    /\ UNCHANGED <<norm, configFile, now, console, setup, auth, listCalls, geVars, orchVars>>

\* a catch that logs and answers with an empty list instead of rethrowing
SwallowAsEmpty(err) ==
    /\ call' = Call("resolved", "", <<>>)
    /\ console' = Log("svc", {Line("err", "Error getting today's events:", "")})

\* calendar_service.js:110-113  the catch of getTodayEvents: log and rethrow
Rethrow(err) ==
    /\ call' = Call("rejected", err, <<>>)
    /\ console' = Log("svc", {Line("err", "Error getting today's events:", "")})

\* the provider rejects the refresh token
RefreshFail ==
    /\ call.pc = "refreshing"
    /\ Rethrow("invalid_grant")
    /\ UNCHANGED <<norm, fsVars, setup, auth, svc, listCalls, geVars, orchVars>>

\* calendar_service.js:90-109  the response arrives
ListOk ==
    /\ call.pc = "listing"
    /\ \E items \in ProviderResponses : call' = Call("resolved", "", TodayEvents(items))
    /\ UNCHANGED <<norm, fsVars, console, setup, auth, svc, listCalls, geVars, orchVars>>

\* transport or API error
ListErr ==
    /\ call.pc = "listing"
    /\ Rethrow("api_error")
    /\ UNCHANGED <<norm, fsVars, setup, auth, svc, listCalls, geVars, orchVars>>

(* --------------------------- event normalization ----------------------- *)

\* events in one list given to a normalization
MaxEvents == 2

\* provider events: with and without a title, timed and all-day
Untitled == ProviderEvent(5, "", 38, 0)
Birthday == ProviderEvent(6, "Birthday", 0, 1)
Review == ProviderEvent(7, "Review", 40, 0)
Lunch == ProviderEvent(8, "Lunch", 36, 0)
ProviderEvents ==
    {Standup, ClientCall, Holiday, Overnight, Untitled, Birthday, Review, Lunch}
ProviderLists == UNION { [1..n -> ProviderEvents] : n \in 0..MaxEvents }

\* one normalization: which function, the list given, the list returned
Norm(op, input, output) == [op |-> op, input |-> input, output |-> output]
NoNorm == Norm("none", <<>>, <<>>)

\* calendar_service.js:90-109  the map of getTodayEvents over the items of
\* a response, which come in start order
MapTodayEvents ==
    /\ \E items \in ProviderLists :
         /\ \A i \in 1..Len(items) : \A j \in 1..Len(items) :
               i < j => StartInstant(DateTimeOrDate(items[i].start))
                          <= StartInstant(DateTimeOrDate(items[j].start))
         /\ norm' = Norm("getTodayEvents", items, TodayEvents(items))
    /\ UNCHANGED <<fsVars, console, setup, auth, svcVars, geVars, orchVars>>

\* calendar_service.js:148-175  formatEvents called with provider events
CallFormatEvents ==
    /\ \E events \in ProviderLists :
         norm' = Norm("formatEvents", events, formatEvents(events))
    /\ UNCHANGED <<fsVars, console, setup, auth, svcVars, geVars, orchVars>>

(* ----------------------------- get_events.js --------------------------- *)

\* the process up to its first await: constructor, initialize(), and, unless
\* the "check" version has exited, the entry of getTodayEvents()
ScriptInitSvc(cfg) == InitializeSvc(NewService, cfg)

\* get_events.js:49-52  the "check" version exits when initialize() fails
ScriptExitsEarly(variant, cfg) == variant = "check" /\ ~InitializeReturns(cfg)

ScriptStartStep(variant) ==
    LET s1 == ScriptInitSvc(configFile) IN
    /\ ge.pc # "awaiting" /\ call.pc = "none"
    /\ listCalls < MaxListCalls
    /\ stdout' = StdoutOf(InitializeLog(configFile))
    /\ IF ScriptExitsEarly(variant, configFile)
       THEN /\ svc' = s1
            /\ call' = NoCall
            /\ listCalls' = listCalls
            /\ ge' = Ge(variant, "exited", 1)
            /\ console' = [console EXCEPT !["svc"] =
                   InitializeLog(configFile)
                   \cup {Line("err", "Failed to initialize calendar service", "")}]
       ELSE /\ svc' = GetTodayEventsSvc(s1, configFile)
            /\ call' = GetTodayEventsEntry(s1, configFile, now)
            /\ listCalls' = IF ReachesList(s1, configFile)
                            THEN listCalls + 1 ELSE listCalls
            /\ ge' = Ge(variant, "awaiting", -1)
            /\ console' = [console EXCEPT !["svc"] =
                   InitializeLog(configFile)
                   \cup GetTodayEventsLog(s1, configFile, now)]

\* what the script prints for the events getTodayEvents() returned
ScriptOutput(variant, events) ==
    IF variant = "format" THEN formatEvents(events)     \* get_events.js:22-25
    ELSE events                                         \* get_events.js:58

\* get_events.js:19-29, 55-62  after the await: print, or log and exit(1)
ScriptFinishStep ==
    /\ ge.pc = "awaiting" /\ call.pc \in {"resolved", "rejected"}
    /\ call' = NoCall
    /\ IF call.pc = "resolved"
       THEN /\ stdout' = Append(stdout, JsonDoc(ScriptOutput(ge.variant, call.value)))
            /\ ge' = Ge(ge.variant, "exited", 0)
            /\ console' = console
       ELSE /\ stdout' = stdout
            /\ ge' = Ge(ge.variant, "exited", 1)
            /\ console' = Log("svc", {Line("err", "Error getting today's events:", "")})

ScriptStart ==
    /\ \E variant \in Variants : ScriptStartStep(variant)
    /\ UNCHANGED <<norm, fsVars, setup, auth, orchVars>>

ScriptFinish ==
    /\ ScriptFinishStep
    /\ UNCHANGED <<norm, fsVars, setup, auth, svc, listCalls, orchVars>>

(* -------------------------- the config setup script -------------------- *)

\* the script exists in two versions: "tokens" (part_000, which writes
\* config.tokens) and "refresh_token" (setup_calendar_config.js, which
\* writes config.refresh_token)
SetupVariants == {"tokens", "refresh_token"}

\* lines 24-54 / 24-40: the config object
SetupConfig(variant, refreshToken, t) ==
    IF variant = "tokens" THEN SetupConfigTokens(refreshToken, t)
    ELSE SetupConfigRefreshToken(refreshToken)

\* lines 18-21: exit(1) before anything is built
SetupMissingEnv(clientId, clientSecret) == ~clientId \/ ~clientSecret

Setup(ran, exit) == [ran |-> ran, exit |-> exit]

SetupLog(refreshToken, writeOk) ==
    (IF refreshToken # NoToken
     THEN {Line("out", "Added refresh token to calendar config", "")}
     ELSE {Line("err", "No refresh token provided.", "")})
    \cup (IF writeOk THEN {Line("out", "Successfully created calendar config at:", "")}
          ELSE {Line("err", "Error writing calendar config:", "")})

\* one run of the script; writeOk is whether fs.writeFileSync succeeds
SetupRun ==
    /\ \E clientId \in BOOLEAN, clientSecret \in BOOLEAN :
         IF SetupMissingEnv(clientId, clientSecret)
         THEN /\ configFile' = configFile
              /\ setup' = Setup(TRUE, 1)
              /\ console' = [console EXCEPT !["setup"] =
                     {Line("err", "Missing required environment variables", "")}]
         ELSE \E variant \in SetupVariants, refreshToken \in {NoToken, EnvRefreshToken},
                 writeOk \in BOOLEAN :
              /\ configFile' = IF writeOk THEN SetupConfig(variant, refreshToken, now)
                               ELSE configFile
              /\ setup' = Setup(TRUE, IF writeOk THEN 0 ELSE 1)
              /\ console' = [console EXCEPT !["setup"] = SetupLog(refreshToken, writeOk)]
    /\ UNCHANGED <<norm, now, issued, auth, svcVars, geVars, orchVars>>

(* ------------------------------ getToken.js ---------------------------- *)

\* server: "off" | "listening" | "closed"; received: callback requests so
\* far; inflight: requests awaiting oauth2Client.getToken; ok200 / err500:
\* responses sent; unanswered: requests the handler never answers
Auth(server, received, inflight, ok200, err500, unanswered) ==
    [server |-> server, received |-> received, inflight |-> inflight,
     ok200 |-> ok200, err500 |-> err500, unanswered |-> unanswered]
NoAuth == Auth("off", 0, 0, 0, 0, 0)

\* getToken.js:14-18, 32-36, 106-118  the script starts; without the client
\* id or secret it exits at once
AuthStart ==
    /\ auth.server # "listening" /\ auth.inflight = 0
    /\ \E credsSet \in BOOLEAN :
         IF credsSet
         THEN /\ auth' = Auth("listening", 0, 0, 0, 0, 0)
              /\ console' = [console EXCEPT !["auth"] =
                     {Line("out", "1. Copy this URL and paste it in your browser:", "")}]
         ELSE /\ auth' = NoAuth
              /\ console' = [console EXCEPT !["auth"] =
                     {Line("err", "Error: Missing Google OAuth credentials", "")}]
    /\ UNCHANGED <<norm, fsVars, setup, svcVars, geVars, orchVars>>

\* getToken.js:36-42  a request arrives; with a code the handler awaits the
\* token exchange, without one it falls through and sends nothing
AuthCallback ==
    /\ auth.server = "listening" /\ auth.received < MaxCallbacks
    /\ \E withCode \in BOOLEAN :
         auth' = IF withCode
                 THEN [auth EXCEPT !.received = @ + 1, !.inflight = @ + 1]
                 ELSE [auth EXCEPT !.received = @ + 1, !.unanswered = @ + 1]
    /\ UNCHANGED <<norm, fsVars, console, setup, svcVars, geVars, orchVars>>

\* getToken.js:43-46  what the handler prints once it has the tokens
ExchangeLog(refreshToken) ==
    { Line("out", "Refresh Token:", refreshToken),
      Line("out", "Save this refresh token in your configuration!", "") }

\* getToken.js:42-82  the exchange succeeds; writeOk is whether
\* fs.writeFileSync succeeds (its exception is caught at 84 like any other)
AuthExchangeOk ==
    /\ auth.inflight > 0
    /\ \E writeOk \in BOOLEAN :
         IF writeOk
         THEN /\ configFile' = GetTokenConfig(GrantedRefreshToken)
              /\ console' = Log("auth", ExchangeLog(GrantedRefreshToken)
                                \cup {Line("out", "Configuration saved to", "")})
              /\ auth' = [auth EXCEPT !.inflight = @ - 1, !.ok200 = @ + 1,
                                      !.server = "closed"]
         ELSE /\ configFile' = configFile
              /\ console' = Log("auth", ExchangeLog(GrantedRefreshToken)
                                \cup {Line("err", "Error getting tokens:", "")})
              /\ auth' = [auth EXCEPT !.inflight = @ - 1, !.err500 = @ + 1]
    /\ UNCHANGED <<norm, now, issued, setup, svcVars, geVars, orchVars>>

\* a handler that also closes the server when the exchange fails
AuthExchangeFailClosing ==
    /\ auth.inflight > 0
    /\ auth' = [auth EXCEPT !.inflight = @ - 1, !.err500 = @ + 1, !.server = "closed"]
    /\ console' = Log("auth", {Line("err", "Error getting tokens:", "")})
    /\ UNCHANGED <<norm, fsVars, setup, svcVars, geVars, orchVars>>

\* getToken.js:84-105  the exchange fails
AuthExchangeFail ==
    /\ auth.inflight > 0
    /\ auth' = [auth EXCEPT !.inflight = @ - 1, !.err500 = @ + 1]
    /\ console' = Log("auth", {Line("err", "Error getting tokens:", "")})
    /\ UNCHANGED <<norm, fsVars, setup, svcVars, geVars, orchVars>>

(* ------------------------------ environment ---------------------------- *)

Tick ==
    /\ now < MaxNow
    /\ now' = now + 1
    /\ UNCHANGED <<norm, configFile, issued, console, setup, auth, svcVars, geVars, orchVars>>

\* the file is deleted, corrupted or replaced by hand
ExternalWrite ==
    /\ \E f \in ExternalFiles : configFile' = f
    /\ UNCHANGED <<norm, now, issued, console, setup, auth, svcVars, geVars, orchVars>>

(* ---------------------------- the orchestrator -------------------------- *)

\* The orchestrator, the weather adapter and the composer are the Python
\* application, which runs get_events.js for the calendar and reads its
\* output (integrations/google-calendar/README.md:108).

Snapshot(summary, temperature, pop) ==
    [summary |-> summary, temperature |-> temperature, pop |-> pop]
Null == Snapshot("", 0, 0)
LightRain == Snapshot("light rain", 18, 60)
Sunny == Snapshot("sunny", 24, 0)
Snapshots == {LightRain, Sunny}

\* one fetch: "idle" | "inflight" | "ok" | "failed", and what it obtained
Fetch(status, weather, events) == [status |-> status, weather |-> weather, events |-> events]
IdleFetch == Fetch("idle", Null, <<>>)
Resolved(f) == f.status \in {"ok", "failed"}

Orch(state, weather, calendar, composeCalls) ==
    [state |-> state, weather |-> weather, calendar |-> calendar,
     composeCalls |-> composeCalls]

\* Briefing Context
Context(weather, events, weatherFailed, calendarFailed) ==
    [weather |-> weather, events |-> events,
     weatherFailed |-> weatherFailed, calendarFailed |-> calendarFailed]
NoCtx == Context(Null, <<>>, FALSE, FALSE)

\* a context in which one source's failure also drops the other's value
AssembleContextCoupled(weather, calendar) ==
    LET failed == weather.status = "failed" \/ calendar.status = "failed" IN
    Context(IF failed THEN Null ELSE weather.weather,
            IF failed THEN <<>> ELSE calendar.events,
            weather.status = "failed", calendar.status = "failed")

\* FETCHING: each failure becomes the field's default plus a flag
AssembleContext(weather, calendar) ==
    Context(IF weather.status = "ok" THEN weather.weather ELSE Null,
            IF calendar.status = "ok" THEN calendar.events ELSE <<>>,
            weather.status = "failed", calendar.status = "failed")

\* composing as soon as one fetch is back
EitherResolved(weather, calendar) == Resolved(weather) \/ Resolved(calendar)

\* the two fetches are joined before composing
BothResolved(weather, calendar) == Resolved(weather) /\ Resolved(calendar)

\* a failed source aborting the request
JoinStateAbort(weather, calendar) ==
    IF weather.status = "failed" \/ calendar.status = "failed"
    THEN "FAILED" ELSE "COMPOSING"

\* COMPOSING follows FETCHING however many sources degraded
JoinState(weather, calendar) == "COMPOSING"

\* narrative text: a sequence of words and numbers
W(w) == [w |-> w, n |-> 0]
N(n) == [w |-> "", n |-> n]

EventLine(e) ==
    <<IF e.formattedTime.kind \in {"time", "range"}
      THEN N(e.formattedTime.a) ELSE W("All day"), W(e.summary)>>

RECURSIVE EventLines(_)
EventLines(events) ==
    IF events = <<>> THEN <<>>
    ELSE EventLine(Head(events)) \o EventLines(Tail(events))

\* "Good morning! Today's weather: {summary}. You have {n} events today: {list}."
Template(c) ==
    <<W("Good morning! Today's weather:")>>
    \o (IF c.weather = Null THEN <<W("weather unavailable")>>
        ELSE <<W(c.weather.summary), N(c.weather.temperature), W("C"),
               N(c.weather.pop), W("% chance of rain")>>)
    \o <<W("You have"), N(Len(c.events)), W("events today:")>>
    \o EventLines(c.events)

LlmTexts == { <<W("Rise and shine!")>> }

\* Briefing Result
Briefing(status, narrative, c, degraded) ==
    [status |-> status, narrative |-> narrative, weather |-> c.weather,
     events |-> c.events, weatherFailed |-> c.weatherFailed,
     calendarFailed |-> c.calendarFailed, degraded |-> degraded]
NoResult == Briefing("none", <<>>, NoCtx, FALSE)

\* a fallback that has nothing to say without weather
FallbackNarrativeNeedsWeather(c) == IF c.weather = Null THEN <<>> ELSE Template(c)

\* the narrative when the language-generation call fails
FallbackNarrative(c) == Template(c)

\* the calendar adapter reads what get_events.js printed.  How it parses is
\* not fixed: "whole" takes the entire output as one JSON document, "last"
\* takes the last line
ParseModes == {"whole", "last"}

ParsesAsEvents(out, mode) ==
    /\ Len(out) > 0
    /\ out[Len(out)].json
    /\ mode = "whole" => Len(out) = 1

\* a non-zero exit status or unparsable output is a calendar failure
CalendarOutcome(exit, out, mode) ==
    IF exit = 0 /\ ParsesAsEvents(out, mode)
    THEN Fetch("ok", Null, out[Len(out)].events)
    ELSE Fetch("failed", Null, <<>>)

\* INIT -> FETCHING: both fetches are started together
OrchStart ==
    /\ orch.state = "INIT"
    /\ \E variant \in Variants : ScriptStartStep(variant)
    /\ orch' = Orch("FETCHING", Fetch("inflight", Null, <<>>),
                    Fetch("inflight", Null, <<>>), 0)
    /\ UNCHANGED <<norm, fsVars, setup, auth, ctx, llm, result>>

WeatherOk ==
    /\ orch.state = "FETCHING" /\ orch.weather.status = "inflight"
    /\ \E w \in Snapshots : orch' = [orch EXCEPT !.weather = Fetch("ok", w, <<>>)]
    /\ UNCHANGED <<norm, fsVars, console, setup, auth, svcVars, geVars, ctx, llm, result>>

WeatherFail ==
    /\ orch.state = "FETCHING" /\ orch.weather.status = "inflight"
    /\ orch' = [orch EXCEPT !.weather = Fetch("failed", Null, <<>>)]
    /\ UNCHANGED <<norm, fsVars, console, setup, auth, svcVars, geVars, ctx, llm, result>>

\* the script has exited
CalendarResolve ==
    /\ orch.state = "FETCHING" /\ orch.calendar.status = "inflight"
    /\ ge.pc = "exited"
    /\ \E mode \in ParseModes :
         orch' = [orch EXCEPT !.calendar = CalendarOutcome(ge.exit, stdout, mode)]
    /\ UNCHANGED <<norm, fsVars, console, setup, auth, svcVars, geVars, ctx, llm, result>>

\* FETCHING -> COMPOSING: the composer is invoked with the context
OrchCompose ==
    /\ orch.state = "FETCHING"
    /\ BothResolved(orch.weather, orch.calendar)
    /\ ctx' = AssembleContext(orch.weather, orch.calendar)
    /\ orch' = [orch EXCEPT !.state = JoinState(orch.weather, orch.calendar),
                            !.composeCalls = @ + 1]
    /\ llm' = "inflight"
    /\ UNCHANGED <<norm, fsVars, console, setup, auth, svcVars, geVars, result>>

\* COMPOSING -> DONE with the generated text
LlmOk ==
    /\ orch.state = "COMPOSING" /\ llm = "inflight"
    /\ llm' = "ok"
    /\ \E text \in LlmTexts : result' = Briefing("briefing", text, ctx, FALSE)
    /\ orch' = [orch EXCEPT !.state = "DONE"]
    /\ UNCHANGED <<norm, fsVars, console, setup, auth, svcVars, geVars, ctx>>

\* COMPOSING -> DONE with the template
LlmFail ==
    /\ orch.state = "COMPOSING" /\ llm = "inflight"
    /\ llm' = "failed"
    /\ result' = Briefing("briefing", FallbackNarrative(ctx), ctx, TRUE)
    /\ orch' = [orch EXCEPT !.state = "DONE"]
    /\ UNCHANGED <<norm, fsVars, console, setup, auth, svcVars, geVars, ctx>>

(* ------------------------------ specification --------------------------- *)

\* the files the programs above leave behind, and no file at all
InitialFiles ==
    { MissingFile, GetTokenConfig(GrantedRefreshToken),
      SetupConfigRefreshToken(EnvRefreshToken), SetupConfigTokens(EnvRefreshToken, 0) }

Rest ==
    /\ now = 0
    /\ issued = 0
    /\ console = [p \in {"setup", "auth", "svc"} |-> {}]
    /\ setup = Setup(FALSE, -1)
    /\ auth = NoAuth
    /\ svc = NewService
    /\ call = NoCall
    /\ listCalls = 0
    /\ ge = NoGe
    /\ stdout = <<>>
    /\ norm = NoNorm
    /\ orch = Orch("INIT", IdleFetch, IdleFetch, 0)
    /\ ctx = NoCtx
    /\ llm = "idle"
    /\ result = NoResult

\* the service, its callers, the setup script and the file
Init == configFile = MissingFile /\ Rest

Next ==
    \/ Tick
    \/ ExternalWrite
    \/ SetupRun
    \/ ApiNew
    \/ ApiInitialize
    \/ ApiGetTodayEvents
    \/ ApiGetEvents
    \/ ApiSettle
    \/ RefreshOk
    \/ RefreshFail
    \/ ListOk
    \/ ListErr
    \/ ScriptStart
    \/ ScriptFinish

Spec == Init /\ [][Next]_vars

\* the authorization script followed by runs of get_events.js
AuthInit == configFile \in InitialFiles /\ Rest

AuthNext ==
    \/ AuthStart
    \/ AuthCallback
    \/ AuthExchangeOk
    \/ AuthExchangeFail
    \/ RefreshOk
    \/ RefreshFail
    \/ ListOk
    \/ ListErr
    \/ ScriptStart
    \/ ScriptFinish

AuthSpec == AuthInit /\ [][AuthNext]_vars

\* one request through the orchestrator
OrchInit == configFile \in InitialFiles \cup ExternalFiles /\ Rest

OrchNext ==
    \/ OrchStart
    \/ WeatherOk
    \/ WeatherFail
    \/ RefreshOk
    \/ RefreshFail
    \/ ListOk
    \/ ListErr
    \/ ScriptFinish
    \/ CalendarResolve
    \/ OrchCompose
    \/ LlmOk
    \/ LlmFail

OrchSpec == OrchInit /\ [][OrchNext]_vars

\* every call that was started is answered, with a value or with a failure
OrchLive == OrchSpec /\ WF_vars(OrchNext)

\* the two normalizations applied to lists of provider events
FormatNext ==
    \/ MapTodayEvents
    \/ CallFormatEvents

FormatSpec == Init /\ [][FormatNext]_vars

(* ----------------------------- properties ------------------------------- *)

\* no usable credential: the file is missing, is not JSON, lacks `installed`
\* or lacks `tokens`
NoCredential(cfg) ==
    \/ cfg.kind \in {"missing", "invalid"}
    \/ ~cfg.installed
    \/ ~cfg.tokens.present

\* C1: while the config file holds no usable credential, every call of
\* getTodayEvents (directly, or by get_events.js) on a service that is not
\* initialized is rejected without reaching calendar.events.list, whether or
\* not initialize() ran before; and the service never becomes initialized
\* from such a file, so in an execution without a usable credential no
\* events.list request is ever issued.
C1_NoCredentialNoRequest ==
    [][ /\ (ApiGetTodayEvents /\ NoCredential(configFile) /\ ~svc.initialized)
            => (call'.pc = "rejected" /\ listCalls' = listCalls)
        /\ (ScriptStart /\ NoCredential(configFile))
            => (/\ listCalls' = listCalls
                /\ ~svc'.initialized
                /\ \/ ge'.pc = "exited" /\ ge'.exit = 1
                   \/ call'.pc = "rejected")
        /\ (~svc.initialized /\ svc'.initialized) => ~NoCredential(configFile) ]_vars

\* a call rejected before any request, after initialize() had already run
\* and created the client from a file without tokens
C1_Witness ==
    /\ call.pc = "rejected"
    /\ call.err = "Calendar service not initialized"
    /\ svc.oAuth2Client /\ ~svc.initialized
    /\ NoCredential(configFile)
    /\ listCalls = 0

OrchStates == {"INIT", "FETCHING", "COMPOSING", "DONE"}
OrchOrder == { <<"INIT", "FETCHING">>, <<"FETCHING", "COMPOSING">>, <<"COMPOSING", "DONE">> }

\* C2: a request started in INIT reaches DONE, changing state only along
\* INIT -> FETCHING -> COMPOSING -> DONE, whatever the weather fetch, the
\* calendar fetch and the language-generation call do; no other state is
\* reached, and at DONE the caller holds a Briefing Result, not an error.
C2_EveryRunReachesDone ==
    /\ (orch.state = "INIT") ~> (orch.state = "DONE")
    /\ [][orch'.state # orch.state => <<orch.state, orch'.state>> \in OrchOrder]_vars
    /\ [](orch.state \in OrchStates)
    /\ [](orch.state = "DONE" => result.status = "briefing")

\* DONE with the weather, the calendar and the language generation all failed
C2_Witness ==
    /\ orch.state = "DONE"
    /\ orch.weather.status = "failed"
    /\ orch.calendar.status = "failed"
    /\ llm = "failed"

\* C3: once the context is assembled, weather is null exactly when the
\* weather fetch failed and is the fetched snapshot otherwise; events is
\* empty when the calendar fetch failed (a non-zero exit status of the
\* script is such a failure) and is the fetched list otherwise; the failure
\* flags of the context and of the result at DONE are set exactly for the
\* sources that failed.
C3_FailureIsolation ==
    /\ orch.calendar.status = "ok" => ge.exit = 0
    /\ orch.state \in {"COMPOSING", "DONE"} =>
         /\ ctx.weatherFailed <=> orch.weather.status = "failed"
         /\ ctx.calendarFailed <=> orch.calendar.status = "failed"
         /\ ctx.weather = IF orch.weather.status = "failed" THEN Null
                          ELSE orch.weather.weather
         /\ ctx.events = IF orch.calendar.status = "failed" THEN <<>>
                         ELSE orch.calendar.events
    /\ orch.state = "DONE" =>
         /\ result.weatherFailed <=> orch.weather.status = "failed"
         /\ result.calendarFailed <=> orch.calendar.status = "failed"
         /\ result.weather = ctx.weather
         /\ result.events = ctx.events

\* DONE after the script exited with status 1 while the weather was fetched
C3_Witness ==
    /\ orch.state = "DONE"
    /\ ge.exit = 1
    /\ result.calendarFailed /\ result.events = <<>>
    /\ ~result.weatherFailed /\ result.weather = LightRain

\* C4: the composer is invoked at most once per request, only when both
\* fetches have resolved, and exactly once by the time of COMPOSING or DONE.
C4_ComposeAfterJoin ==
    /\ orch.composeCalls <= 1
    /\ orch.composeCalls = 1 <=> orch.state \in {"COMPOSING", "DONE"}
    /\ (orch.composeCalls > 0 \/ llm # "idle") =>
         (Resolved(orch.weather) /\ Resolved(orch.calendar))

\* the composer invoked, the calendar having answered with events
C4_Witness ==
    /\ orch.state = "COMPOSING" /\ orch.composeCalls = 1 /\ llm = "inflight"
    /\ orch.weather.status = "ok"
    /\ orch.calendar.status = "ok" /\ Len(orch.calendar.events) > 0

\* the template for known weather and no events
FixtureNarrative ==
    << W("Good morning! Today's weather:"), W("light rain"), N(18), W("C"),
       N(60), W("% chance of rain"), W("You have"), N(0), W("events today:") >>

\* C5: when the language-generation call has failed, the narrative of the
\* result is the template of the same context, it is not empty, and for
\* the fixture context (light rain, no events) it is the fixture text.
C5_TemplateFallback ==
    llm = "failed" =>
      /\ result.status = "briefing"
      /\ result.narrative = Template(ctx)
      /\ Len(result.narrative) > 0
      /\ (ctx.weather = LightRain /\ ctx.events = <<>>) => result.narrative = FixtureNarrative

\* the fallback used with neither weather nor events
C5_Witness ==
    /\ llm = "failed" /\ orch.state = "DONE"
    /\ ctx.weather = Null /\ ctx.events = <<>>
    /\ Len(result.narrative) > 0

\* C6: no line on the console of any program carries a refresh token.
C6_RefreshTokenNeverLogged ==
    \A p \in DOMAIN console : \A l \in console[p] : l.arg \notin RefreshTokens

\* C7: a successful refresh leaves the new access token and its expiry in
\* calendar_config.json.
C7_RefreshPersisted ==
    [][RefreshOk =>
         /\ configFile'.tokens.access_token = svc'.credentials.access_token
         /\ configFile'.tokens.expiry_date = svc'.credentials.expiry_date]_vars

\* C9: a run of get_events.js started on the file getToken.js saved after a
\* successful exchange initializes the service and goes on to fetch events.
C9_GetEventsAfterAuthorization ==
    [][(ScriptStart /\ auth.ok200 > 0
        /\ configFile = GetTokenConfig(GrantedRefreshToken))
       => (svc'.initialized /\ ge'.pc = "awaiting")]_vars

\* C10: initialize() on the file a setup run wrote with the client id, the
\* client secret and the refresh token all set returns true and sets
\* initialized.
C10_SetupConfigInitializes ==
    [][(ApiInitialize /\ setup.ran /\ setup.exit = 0
        /\ \E variant \in SetupVariants, t \in 0..MaxNow :
             configFile = SetupConfig(variant, EnvRefreshToken, t))
       => svc'.initialized]_vars

\* C11: when get_events.js has exited with status 0 its standard output is
\* exactly one JSON document, the array the script printed; when it has
\* exited with status 1 no JSON document is on its standard output.
C11_StdoutIsOneJsonDocument ==
    ge.pc = "exited" =>
      IF ge.exit = 0
      THEN Len(stdout) = 1 /\ stdout[1].json
      ELSE \A i \in 1..Len(stdout) : ~stdout[i].json

\* C12: when get_events.js prints the events of a response, the i-th event
\* it prints is labelled all-day (formattedTime 'All day', and isAllDay true
\* when it has that key) exactly when the i-th provider event has no
\* start.dateTime; an event with a start.dateTime is not labelled all-day.
C12_AllDayIffNoStartTime ==
    [][(ScriptFinish /\ call.pc = "resolved") =>
         \A items \in ProviderResponses :
            call.value = TodayEvents(items) =>
              LET out == stdout'[Len(stdout')].events IN
              /\ Len(out) = Len(items)
              /\ \A i \in 1..Len(items) :
                    IF HasDateTime(items[i].start)
                    THEN out[i].formattedTime # AllDay /\ ~out[i].isAllDay
                    ELSE /\ out[i].formattedTime = AllDay
                         /\ out[i].shape = "formatted" => out[i].isAllDay]_vars

\* C13: the list a getTodayEvents call resolved with is in ascending order
\* of start, and every event of it starts within today's window
\* [StartOfDay, EndOfDay], whatever the provider answered.
C13_SortedAndInWindow ==
    call.pc = "resolved" =>
      /\ \A i \in 1..Len(call.value) : \A j \in 1..Len(call.value) :
            i < j => StartInstant(call.value[i].start) <= StartInstant(call.value[j].start)
      /\ \A i \in 1..Len(call.value) :
            /\ StartOfDay <= StartInstant(call.value[i].start)
            /\ StartInstant(call.value[i].start) <= EndOfDay

\* C14: the list getTodayEvents' mapping or formatEvents returns for a list
\* of provider events has the same length, its i-th event comes from the
\* i-th provider event (same start, and same id where the id is kept), and
\* its title is 'Untitled Event' when the provider event has no title and
\* the provider's title otherwise.
C14_TitlePlaceholder ==
    norm.op # "none" =>
      /\ Len(norm.output) = Len(norm.input)
      /\ \A i \in 1..Len(norm.input) :
            /\ norm.output[i].summary =
                 IF norm.input[i].summary = "" THEN "Untitled Event"
                 ELSE norm.input[i].summary
            /\ norm.output[i].start = DateTimeOrDate(norm.input[i].start)
            /\ norm.op = "formatEvents" => norm.output[i].id = norm.input[i].id

\* formatEvents given an event without a title followed by a titled one
C14_Witness ==
    /\ norm.op = "formatEvents"
    /\ norm.input = <<Untitled, Standup>>
    /\ norm.output[1].summary = "Untitled Event"
    /\ norm.output[2].summary = "Standup"

\* C15: a getTodayEvents call that reaches calendar.events.list issues one
\* request and no further one while it is in progress or after it failed;
\* when the request fails (an API or transport error, or the provider
\* rejecting the refresh token) the call is rejected with that error, a
\* rejected call is never started again, and get_events.js awaiting it
\* exits with status 1 having printed no events.
C15_FailureNotRetried ==
    [][ /\ (call.pc = "none" /\ call'.pc \in {"listing", "refreshing"})
            => listCalls' = listCalls + 1
        /\ call.pc # "none" => listCalls' = listCalls
        /\ (ListErr \/ RefreshFail)
            => (call'.pc = "rejected" /\ call'.err \in {"api_error", "invalid_grant"})
        /\ call.pc = "rejected" => call'.pc \in {"rejected", "none"}
        /\ (ge.pc = "awaiting" /\ call.pc = "rejected" /\ ge' # ge)
            => (ge'.pc = "exited" /\ ge'.exit = 1 /\ stdout' = stdout) ]_vars

\* get_events.js exited with status 1 after its one request failed
C15_Witness ==
    /\ ge.pc = "exited" /\ ge.exit = 1
    /\ svc.initialized
    /\ listCalls = 1
    /\ Line("err", "Error getting today's events:", "") \in console["svc"]

\* C16: getEvents called with well-formed dates on an initialized service
\* issues one events.list request and is not rejected before the provider
\* has answered.
C16_GetEventsIssuesRequest ==
    [][(ApiGetEvents /\ svc.initialized /\ call'.err # "RangeError")
       => (listCalls' = listCalls + 1 /\ call'.pc \in {"listing", "refreshing"})]_vars

\* the failures of initialize(): the file is missing, is not JSON, has no
\* `installed`, has no `installed.redirect_uris`, or has no `tokens`
InitializeFailure(cfg) ==
    \/ cfg.kind = "missing"
    \/ cfg.kind = "invalid"
    \/ ~cfg.installed
    \/ ~cfg.redirect_uris
    \/ ~cfg.tokens.present

\* C17 as stated: initialize() throws nothing to its caller; on each failure
\* it returns false and initialized is false afterwards; it returns true
\* only with initialized set.
C17_FailureLeavesUninitialized ==
    [][ApiInitialize =>
         /\ call' = call
         /\ InitializeFailure(configFile)
              => (~InitializeReturns(configFile) /\ ~svc'.initialized)
         /\ InitializeReturns(configFile) => svc'.initialized]_vars

\* C17 amended: initialize() throws nothing to its caller; on each failure
\* it returns false and leaves initialized as it was, so false on a service
\* that was not initialized (and on the fresh service of get_events.js) and
\* still true on one that was; it returns true only with initialized set,
\* and that only when none of the failures applies.
C17_FailureLeavesInitializedUnchanged ==
    [][ /\ ApiInitialize =>
             /\ call' = call
             /\ InitializeFailure(configFile)
                  => (~InitializeReturns(configFile) /\ svc'.initialized = svc.initialized)
             /\ InitializeReturns(configFile)
                  => (svc'.initialized /\ ~InitializeFailure(configFile))
        /\ (ScriptStart /\ InitializeFailure(configFile)) => ~svc'.initialized ]_vars

\* initialize() has failed on a file whose `installed` has no redirect_uris:
\* the TypeError was caught and logged, and no client was created
C17_Witness ==
    /\ ge.pc = "idle" /\ call.pc = "none"
    /\ configFile.kind = "json" /\ configFile.installed /\ ~configFile.redirect_uris
    /\ Line("err", "Error initializing calendar service:", "") \in console["svc"]
    /\ ~svc.initialized /\ ~svc.oAuth2Client

\* C18 as stated: whenever initialized is true the service holds an OAuth2
\* client that has been given tokens.
C18_InitializedHasTokens ==
    svc.initialized => (svc.oAuth2Client /\ svc.credentials.present)

\* a step that replaces the service object by a new one
NewObject == ApiNew \/ ScriptStart

\* C18 amended: on one service object, initialized becomes true only in a
\* step that creates the OAuth2 client and gives it the tokens of the config
\* file as it is then; whenever initialized is true a client exists; and
\* initialized never goes back to false.  (The client of an initialized
\* service may hold no tokens: see C18_Witness.)
C18_InitializedOnlyWithClient ==
    [][ /\ svc'.initialized => svc'.oAuth2Client
        /\ (~svc.initialized /\ svc'.initialized)
             => (configFile.tokens.present /\ svc'.credentials = configFile.tokens)
        /\ (svc.initialized /\ ~NewObject) => svc'.initialized ]_vars

\* an initialized service whose client was replaced, by a later initialize()
\* on a file without tokens, with one that holds no credentials
C18_Witness ==
    /\ svc.initialized /\ svc.oAuth2Client
    /\ ~svc.credentials.present
    /\ ~configFile.tokens.present

\* a callback request without a `code` has arrived
CallbackWithoutCode == AuthCallback /\ auth'.unanswered = auth.unanswered + 1

\* a request that carried a `code` has been answered
Answered == auth'.inflight = auth.inflight - 1

\* every request received is awaiting its exchange, has been answered with
\* 200 or with 500, or carried no code
RequestsAccounted ==
    auth.received = auth.inflight + auth.ok200 + auth.err500 + auth.unanswered

\* the server goes from listening to closed only in a step that answers 200
\* with the config file written; 200 is sent only with the file written
ClosedOnlyOnSuccess ==
    /\ (auth.server # "closed" /\ auth'.server = "closed")
         => (auth'.ok200 = auth.ok200 + 1
             /\ configFile' = GetTokenConfig(GrantedRefreshToken))
    /\ auth'.ok200 > auth.ok200 => configFile' = GetTokenConfig(GrantedRefreshToken)

\* a request with a code whose exchange has settled gets exactly one
\* response: 200, or 500 (always 500 when the exchange failed)
OneResponse ==
    /\ Answered =>
         \/ auth'.ok200 = auth.ok200 + 1 /\ auth'.err500 = auth.err500
         \/ auth'.ok200 = auth.ok200 /\ auth'.err500 = auth.err500 + 1
    /\ AuthExchangeFail => (Answered /\ auth'.err500 = auth.err500 + 1)
    /\ (auth'.ok200 # auth.ok200 \/ auth'.err500 # auth.err500) => (Answered \/ AuthStart)

\* C19 as stated: the server is closed only after a successful exchange
\* with the config file written; after a request without a code, and after
\* a failed exchange, the server is listening; every request with a code
\* whose exchange settles is answered, 200 on success and 500 on failure.
C19_FailureLeavesListening ==
    [][ /\ ClosedOnlyOnSuccess
        /\ CallbackWithoutCode => auth'.server = "listening"
        /\ AuthExchangeFail => auth'.server = "listening"
        /\ OneResponse ]_vars

\* C19 amended: as C19, except that a request without a code and a failed
\* exchange leave the server as it was: listening if it was listening, and
\* closed if an exchange of another request had succeeded in the meantime.
C19_FailureDoesNotClose ==
    /\ [][ /\ ClosedOnlyOnSuccess
           /\ CallbackWithoutCode => (auth.server = "listening" /\ auth'.server = "listening")
           /\ AuthExchangeFail => auth'.server = auth.server
           /\ OneResponse ]_vars
    /\ []RequestsAccounted

\* two requests with a code: one exchange succeeded and closed the server,
\* the other failed and was answered 500
C19_Witness ==
    /\ auth.server = "closed"
    /\ auth.ok200 = 1 /\ auth.err500 = 1
    /\ auth.inflight = 0 /\ auth.unanswered = 0
    /\ configFile = GetTokenConfig(GrantedRefreshToken)

\* what the last run of the setup script printed
SetupPrinted(stream, msg) == Line(stream, msg, "") \in console'["setup"]

\* C20: a run of the setup script without GOOGLE_CLIENT_ID or
\* GOOGLE_CLIENT_SECRET (it prints 'Missing required environment variables')
\* exits with status 1 and leaves calendar_config.json as it was, absent or
\* not; a run with both and without GOOGLE_REFRESH_TOKEN (it prints 'No
\* refresh token provided.') whose write succeeds exits with status 0 and
\* leaves a JSON file with `installed` and without `tokens`, on which
\* initialize() returns false and does not set initialized.
C20_SetupWithoutCredentials ==
    [][ \/ /\ SetupPrinted("err", "Missing required environment variables")
                => (setup'.exit = 1 /\ configFile' = configFile)
           /\ (/\ SetupPrinted("err", "No refresh token provided.")
               /\ SetupPrinted("out", "Successfully created calendar config at:"))
                => /\ setup'.exit = 0
                   /\ configFile'.kind = "json" /\ configFile'.installed
                   /\ ~configFile'.tokens.present
                   /\ ~InitializeReturns(configFile')
                   /\ ~InitializeSvc(NewService, configFile').initialized
        \/ ~SetupRun ]_vars

\* the script ran without a refresh token and wrote the file, and
\* initialize() on that file has created the client and returned false
C20_Witness ==
    /\ setup.ran /\ setup.exit = 0
    /\ Line("err", "No refresh token provided.", "") \in console["setup"]
    /\ configFile.kind = "json" /\ configFile.installed /\ ~configFile.tokens.present
    /\ Line("err", "No tokens found in config file", "") \in console["svc"]
    /\ svc.oAuth2Client /\ ~svc.initialized

====
